---- MODULE Spec2Model ----
(***************************************************************************)
(* A model of the marketplace front end: the Listing Creator               *)
(* (src/src/components/CreateListingModal.tsx) and the Listing Browser     *)
(* (MarketplaceGrid, src/unnamed/part_000).                                *)
(*                                                                         *)
(* JavaScript strings are sequences of one-character strings, so that      *)
(* trim, startsWith, slice, toLowerCase, includes, the address regular     *)
(* expression and parseFloat are computed character by character.          *)
(***************************************************************************)
EXTENDS Integers, Sequences, FiniteSets, TLC

\* ------------------------------------------------------------------------
\* Bounds of the model
\* ------------------------------------------------------------------------

\* FileReader loads that may be pending at once.
MaxReaders == 2

\* handleClose reset timers that may be pending at once.
MaxCloseTimers == 1

\* Listings the store may hold before the parent stops opening the form.
MaxItems == 1

\* Listings of a store the grid is shown over.
MaxStore == 2

\* Listings in a store the grid's derived view is computed over.
MaxViewStore == 3

\* ------------------------------------------------------------------------
\* Program constants
\* ------------------------------------------------------------------------

\* 10 * 1024 * 1024, the size limit of handleImageSelect.
MaxFileSize == 10485760

\* {64} in the regular expression of validateSuiAddress.
SuiAddressLen == 64

\* ------------------------------------------------------------------------
\* JavaScript values
\* ------------------------------------------------------------------------

\* null, for a File or a data URL held in React state.
Null == "null"

\* undefined, for an optional string (a sequence of characters).
Undefined == <<"#undefined">>

Str1(a) == <<a>>

Rep(c, n) == [i \in 1..n |-> c]

UpperChars == <<"A", "B", "C", "D", "E", "F", "G", "H", "I", "J", "K", "L", "M",
                "N", "O", "P", "Q", "R", "S", "T", "U", "V", "W", "X", "Y", "Z">>

LowerChars == <<"a", "b", "c", "d", "e", "f", "g", "h", "i", "j", "k", "l", "m",
                "n", "o", "p", "q", "r", "s", "t", "u", "v", "w", "x", "y", "z">>

DigitChars == <<"0", "1", "2", "3", "4", "5", "6", "7", "8", "9">>

\* The white space String.prototype.trim and parseFloat strip.
WhiteSpace == {" ", "\t", "\n", "\r"}

IsDigit(c) == \E i \in 1..10 : DigitChars[i] = c

DigitValue(c) == (CHOOSE i \in 1..10 : DigitChars[i] = c) - 1

\* String.prototype.toLowerCase, one character.
toLowerChar(c) ==
    IF \E i \in 1..26 : UpperChars[i] = c
    THEN LowerChars[CHOOSE i \in 1..26 : UpperChars[i] = c]
    ELSE c

\* String.prototype.toLowerCase.
toLowerCase(s) == [i \in 1..Len(s) |-> toLowerChar(s[i])]

\* String.prototype.startsWith.
startsWith(s, p) ==
    /\ Len(p) <= Len(s)
    /\ \A i \in 1..Len(p) : s[i] = p[i]

\* String.prototype.slice(n), n >= 0.
slice(s, n) == SubSeq(s, n + 1, Len(s))

\* String.prototype.includes: p occurs in s at some offset.
includes(s, p) ==
    \E k \in 0..(Len(s) - Len(p)) : startsWith(slice(s, k), p)

\* String.prototype.trimStart.
RECURSIVE trimStart(_)
trimStart(s) ==
    IF s # <<>> /\ Head(s) \in WhiteSpace THEN trimStart(Tail(s)) ELSE s

\* String.prototype.trimEnd.
RECURSIVE trimEnd(_)
trimEnd(s) ==
    IF s # <<>> /\ s[Len(s)] \in WhiteSpace
    THEN trimEnd(SubSeq(s, 1, Len(s) - 1))
    ELSE s

\* String.prototype.trim.
trim(s) == trimEnd(trimStart(s))

\* ------------------------------------------------------------------------
\* parseFloat / parseInt (ECMAScript StrDecimalLiteral, longest prefix)
\* ------------------------------------------------------------------------

\* The number of leading decimal digits of s.
RECURSIVE DigitRun(_)
DigitRun(s) ==
    IF s # <<>> /\ IsDigit(Head(s)) THEN 1 + DigitRun(Tail(s)) ELSE 0

\* The value of a sequence of decimal digits (0 for the empty sequence).
RECURSIVE DigitsValue(_)
DigitsValue(s) ==
    IF s = <<>> THEN 0
    ELSE 10 * DigitsValue(SubSeq(s, 1, Len(s) - 1)) + DigitValue(s[Len(s)])

NaN == [kind |-> "nan", neg |-> FALSE, mant |-> 0, exp |-> 0]

InfinityChars == <<"I", "n", "f", "i", "n", "i", "t", "y">>

\* parseFloat(s): NaN, +-Infinity, or the number (-1)^neg * mant * 10^exp.
\* The strings of the model are short, so no double rounding occurs.
parseFloat(s) ==
    LET t       == trimStart(s)
        signLen == IF t # <<>> /\ t[1] \in {"+", "-"} THEN 1 ELSE 0
        neg     == signLen = 1 /\ t[1] = "-"
        u       == slice(t, signLen)
        intLen  == DigitRun(u)
        afterInt == slice(u, intLen)
        hasDot  == afterInt # <<>> /\ afterInt[1] = "."
        fracLen == IF hasDot THEN DigitRun(slice(afterInt, 1)) ELSE 0
        digits  == SubSeq(u, 1, intLen) \o
                   (IF hasDot THEN SubSeq(afterInt, 2, 1 + fracLen) ELSE <<>>)
        rest    == slice(afterInt, IF hasDot THEN 1 + fracLen ELSE 0)
        hasE    == rest # <<>> /\ rest[1] \in {"e", "E"}
        afterE  == slice(rest, 1)
        eSignLen == IF afterE # <<>> /\ afterE[1] \in {"+", "-"} THEN 1 ELSE 0
        eNeg    == eSignLen = 1 /\ afterE[1] = "-"
        eDigits == slice(afterE, eSignLen)
        eLen    == IF hasE THEN DigitRun(eDigits) ELSE 0
        eVal    == DigitsValue(SubSeq(eDigits, 1, eLen))
    IN  IF startsWith(u, InfinityChars)
        THEN [kind |-> "inf", neg |-> neg, mant |-> 0, exp |-> 0]
        ELSE IF intLen = 0 /\ fracLen = 0
        THEN NaN
        ELSE [kind |-> "num", neg |-> neg, mant |-> DigitsValue(digits),
              exp |-> (IF eNeg THEN 0 - eVal ELSE eVal) - fracLen]

\* parseInt(s) in radix 10: the leading integer of s, or NaN.
parseInt(s) ==
    LET t       == trimStart(s)
        signLen == IF t # <<>> /\ t[1] \in {"+", "-"} THEN 1 ELSE 0
        u       == slice(t, signLen)
        intLen  == DigitRun(u)
    IN  IF intLen = 0
        THEN NaN
        ELSE [kind |-> "num", neg |-> (signLen = 1 /\ t[1] = "-"),
              mant |-> DigitsValue(SubSeq(u, 1, intLen)), exp |-> 0]

\* x <= 0 for a parsed number x; every comparison with NaN is false.
NumLeqZero(x) ==
    CASE x.kind = "nan" -> FALSE
      [] x.kind = "inf" -> x.neg
      [] OTHER          -> x.mant = 0 \/ x.neg

\* x > 0 for a parsed number x.
NumGtZero(x) ==
    CASE x.kind = "nan" -> FALSE
      [] x.kind = "inf" -> ~x.neg
      [] OTHER          -> x.mant > 0 /\ ~x.neg

\* ------------------------------------------------------------------------
\* State
\* ------------------------------------------------------------------------

VARIABLES
    \* CreateListingModal: props and React state
    isOpen,            \* the isOpen prop, owned by the parent
    isSubmitting,
    formData,
    selectedImage,     \* a file, or Null
    imagePreview,      \* a data URL, or Null
    isDragging,
    \* CreateListingModal: asynchronous work in flight
    readers,           \* file -> number of FileReader loads not yet ended
    closeTimers,       \* pending setTimeout(..., 300) callbacks of handleClose
    submission,        \* <<>>, or <<c>>: the closure c of the handleSubmit call
                       \* that is waiting on its 1500 ms promise
    \* MarketplaceContext and SessionContext
    items,             \* the listing store, in store order
    currentUserAddress,
    isConnected,
    viewableGates,     \* the gate addresses canViewEscrowListing grants
    \* MarketplaceGrid: props and React state
    searchQuery,
    category,
    sortBy,
    editingItem,       \* <<>> or <<item>>
    showActionsFor,    \* <<>> (null) or <<id>>
    \* What the last handler did to its collaborators
    toasts,            \* the notifications it emitted, in order
    addItemCalls,      \* the records it passed to addItem
    onCloseCalls,      \* how many times it called onClose
    deleteItemCalls,   \* the ids it passed to deleteItem
    confirmCalls       \* how many times it called window.confirm

creatorVars == <<isOpen, isSubmitting, formData, selectedImage, imagePreview,
                 isDragging, readers, closeTimers, submission>>

contextVars == <<items, currentUserAddress, isConnected, viewableGates>>

\* viewMode and selectedItem (the layout switch and the detail modal) are read
\* by the rendering alone and are left out.
gridVars == <<searchQuery, category, sortBy, editingItem, showActionsFor>>

outputVars == <<toasts, addItemCalls, onCloseCalls, deleteItemCalls, confirmCalls>>

vars == <<creatorVars, contextVars, gridVars, outputVars>>

\* A handler that calls no collaborator.
NoOutput ==
    /\ toasts' = <<>>
    /\ addItemCalls' = <<>>
    /\ onCloseCalls' = 0
    /\ deleteItemCalls' = <<>>
    /\ confirmCalls' = 0

\* A handler whose only calls are the notifications ts.
OnlyToasts(ts) ==
    /\ toasts' = ts
    /\ addItemCalls' = <<>>
    /\ onCloseCalls' = 0
    /\ deleteItemCalls' = <<>>
    /\ confirmCalls' = 0

ToastError(m) == [kind |-> "error", message |-> m]

ToastSuccess(m) == [kind |-> "success", message |-> m]

\* ------------------------------------------------------------------------
\* Files offered to the creation form
\* ------------------------------------------------------------------------

FileIds == {"a.png", "b.jpg", "big.png", "doc.pdf"}

\* File.type
FileType(f) ==
    CASE f = "a.png"   -> <<"i", "m", "a", "g", "e", "/", "p", "n", "g">>
      [] f = "b.jpg"   -> <<"i", "m", "a", "g", "e", "/", "j", "p", "e", "g">>
      [] f = "big.png" -> <<"i", "m", "a", "g", "e", "/", "p", "n", "g">>
      [] OTHER         -> <<"a", "p", "p", "l", "i", "c", "a", "t", "i", "o", "n",
                            "/", "p", "d", "f">>

\* File.size: b.jpg is exactly at the limit, big.png one byte over it.
FileSize(f) ==
    CASE f = "a.png"   -> 2048
      [] f = "b.jpg"   -> MaxFileSize
      [] f = "big.png" -> MaxFileSize + 1
      [] OTHER         -> 4096

\* FileReader.readAsDataURL: the data URL of a file's content.
DataUrl(f) ==
    CASE f = "a.png"   -> "data:image/png;base64,AAAA"
      [] f = "b.jpg"   -> "data:image/jpeg;base64,BBBB"
      [] f = "big.png" -> "data:image/png;base64,CCCC"
      [] OTHER         -> "data:application/pdf;base64,DDDD"

ImagePrefix == <<"i", "m", "a", "g", "e", "/">>

PendingReaders == readers["a.png"] + readers["b.jpg"] + readers["big.png"] + readers["doc.pdf"]

\* ------------------------------------------------------------------------
\* The creation form
\* ------------------------------------------------------------------------

initialFormData ==
    [title |-> <<>>,
     description |-> <<>>,
     price |-> <<>>,
     category |-> "art",
     escrowDuration |-> <<"7">>,
     listingType |-> "standard",
     escrowBuyerAddress |-> <<>>]

HexChars == {"0", "1", "2", "3", "4", "5", "6", "7", "8", "9",
             "a", "b", "c", "d", "e", "f", "A", "B", "C", "D", "E", "F"}

\* A validateSuiAddress that tests the address without stripping the prefix.
validateSuiAddress_NoStrip(address) ==
    /\ Len(address) = SuiAddressLen
    /\ \A i \in 1..Len(address) : address[i] \in HexChars

\* validateSuiAddress: strip one leading "0x", then /^[a-fA-F0-9]{64}$/.
validateSuiAddress(address) ==
    LET cleanAddress == IF startsWith(address, <<"0", "x">>)
                        THEN slice(address, 2)
                        ELSE address
    IN  /\ Len(cleanAddress) = SuiAddressLen
        /\ \A i \in 1..Len(cleanAddress) : cleanAddress[i] \in HexChars

MsgImage == "Please upload an image for your listing"
MsgTitle == "Please enter a title for your listing"
MsgDescription == "Please enter a description for your listing"
MsgPrice == "Please enter a valid price"
MsgAddressMissing == "Please enter the buyer's Sui wallet address for escrow listing"
MsgAddressInvalid == "Please enter a valid Sui wallet address (64 character hex string)"

\* A validateForm that does not ask for a staged image.
validateForm_NoImageRule(fd, image, preview) ==
    IF trim(fd.title) = <<>>
    THEN <<ToastError(MsgTitle)>>
    ELSE IF trim(fd.description) = <<>>
    THEN <<ToastError(MsgDescription)>>
    ELSE IF fd.price = <<>> \/ NumLeqZero(parseFloat(fd.price))
    THEN <<ToastError(MsgPrice)>>
    ELSE IF fd.listingType = "escrow" /\ trim(fd.escrowBuyerAddress) = <<>>
    THEN <<ToastError(MsgAddressMissing)>>
    ELSE IF fd.listingType = "escrow" /\ ~validateSuiAddress(fd.escrowBuyerAddress)
    THEN <<ToastError(MsgAddressInvalid)>>
    ELSE <<>>

\* A validateForm that checks the price before the description.
validateForm_PriceFirst(fd, image, preview) ==
    IF image = Null \/ preview = Null
    THEN <<ToastError(MsgImage)>>
    ELSE IF trim(fd.title) = <<>>
    THEN <<ToastError(MsgTitle)>>
    ELSE IF fd.price = <<>> \/ NumLeqZero(parseFloat(fd.price))
    THEN <<ToastError(MsgPrice)>>
    ELSE IF trim(fd.description) = <<>>
    THEN <<ToastError(MsgDescription)>>
    ELSE IF fd.listingType = "escrow" /\ trim(fd.escrowBuyerAddress) = <<>>
    THEN <<ToastError(MsgAddressMissing)>>
    ELSE IF fd.listingType = "escrow" /\ ~validateSuiAddress(fd.escrowBuyerAddress)
    THEN <<ToastError(MsgAddressInvalid)>>
    ELSE <<>>

\* validateForm: the notifications it emits; it returns true exactly when it
\* emits none.
validateForm(fd, image, preview) ==
    IF image = Null \/ preview = Null
    THEN <<ToastError(MsgImage)>>
    ELSE IF trim(fd.title) = <<>>
    THEN <<ToastError(MsgTitle)>>
    ELSE IF trim(fd.description) = <<>>
    THEN <<ToastError(MsgDescription)>>
    ELSE IF fd.price = <<>> \/ NumLeqZero(parseFloat(fd.price))
    THEN <<ToastError(MsgPrice)>>
    ELSE IF fd.listingType = "escrow" /\ trim(fd.escrowBuyerAddress) = <<>>
    THEN <<ToastError(MsgAddressMissing)>>
    ELSE IF fd.listingType = "escrow" /\ ~validateSuiAddress(fd.escrowBuyerAddress)
    THEN <<ToastError(MsgAddressInvalid)>>
    ELSE <<>>

\* ------------------------------------------------------------------------
\* MarketplaceContext (its code is not part of the sources)
\* ------------------------------------------------------------------------

RECURSIVE MaxOver(_, _)
MaxOver(seq, field) ==
    IF seq = <<>> THEN 0
    ELSE LET m == MaxOver(Tail(seq), field)
             v == IF field = "id" THEN Head(seq).id ELSE Head(seq).createdAt
         IN  IF v > m THEN v ELSE m

\* addItem(fields): the store gains one listing with a fresh id, the session's
\* identity as seller, the current time and no likes.
addItem(store, fields, seller) ==
    Append(store,
           [id |-> MaxOver(store, "id") + 1,
            title |-> fields.title,
            description |-> fields.description,
            price |-> fields.price,
            category |-> fields.category,
            image |-> fields.image,
            seller |-> seller,
            createdAt |-> MaxOver(store, "createdAt") + 1,
            likes |-> 0,
            listingType |-> fields.listingType,
            escrowDuration |-> fields.escrowDuration,
            escrowBuyerAddress |-> fields.escrowBuyerAddress])

\* deleteItem(id): the store without the listings of that id, order kept.
deleteItem(store, id) == SelectSeq(store, LAMBDA it : it.id # id)

\* ------------------------------------------------------------------------
\* CreateListingModal: handlers
\* ------------------------------------------------------------------------

gridUnchanged == UNCHANGED <<contextVars, gridVars>>

\* The parent shows the creation form (sets the isOpen prop).
Open ==
    /\ ~isOpen
    /\ Len(items) < MaxItems
    /\ isOpen' = TRUE
    /\ UNCHANGED <<isSubmitting, formData, selectedImage, imagePreview,
                   isDragging, readers, closeTimers, submission>>
    /\ NoOutput
    /\ gridUnchanged

\* A handleImageSelect that also turns away a file of exactly 10 MiB.
handleImageSelect_StrictSize(file) ==
    IF startsWith(FileType(file), ImagePrefix)
    THEN IF FileSize(file) >= MaxFileSize
         THEN /\ OnlyToasts(<<ToastError("File size must be less than 10MB")>>)
              /\ UNCHANGED <<selectedImage, readers>>
         ELSE /\ PendingReaders < MaxReaders
              /\ selectedImage' = file
              /\ readers' = [readers EXCEPT ![file] = @ + 1]
              /\ OnlyToasts(<<ToastSuccess("Image uploaded successfully!")>>)
    ELSE /\ OnlyToasts(<<ToastError("Please select a valid image file")>>)
         /\ UNCHANGED <<selectedImage, readers>>

\* handleImageSelect(file): the part of the state it writes.
handleImageSelect(file) ==
    IF startsWith(FileType(file), ImagePrefix)
    THEN IF FileSize(file) > MaxFileSize
         THEN /\ OnlyToasts(<<ToastError("File size must be less than 10MB")>>)
              /\ UNCHANGED <<selectedImage, readers>>
         ELSE /\ PendingReaders < MaxReaders
              /\ selectedImage' = file
              /\ readers' = [readers EXCEPT ![file] = @ + 1]
              /\ OnlyToasts(<<ToastSuccess("Image uploaded successfully!")>>)
    ELSE /\ OnlyToasts(<<ToastError("Please select a valid image file")>>)
         /\ UNCHANGED <<selectedImage, readers>>

\* The hidden file input changes. The input is disabled while submitting; its
\* dialog is opened from the drop zone, and may return after a preview arrived.
\* The value the DOM input keeps (cleared by removeImage) is not part of the
\* state: a drop delivers any file, the one staged before included.
handleFileInputChange(file) ==
    /\ isOpen
    /\ ~isSubmitting
    /\ handleImageSelect(file)
    /\ UNCHANGED <<isOpen, isSubmitting, formData, imagePreview, isDragging,
                   closeTimers, submission>>
    /\ gridUnchanged

\* The drop zone is rendered while there is no preview.
handleDragOver ==
    /\ isOpen
    /\ imagePreview = Null
    /\ isDragging' = TRUE
    /\ UNCHANGED <<isOpen, isSubmitting, formData, selectedImage, imagePreview,
                   readers, closeTimers, submission>>
    /\ NoOutput
    /\ gridUnchanged

handleDragLeave ==
    /\ isOpen
    /\ imagePreview = Null
    /\ isDragging' = FALSE
    /\ UNCHANGED <<isOpen, isSubmitting, formData, selectedImage, imagePreview,
                   readers, closeTimers, submission>>
    /\ NoOutput
    /\ gridUnchanged

handleDrop(file) ==
    /\ isOpen
    /\ imagePreview = Null
    /\ isDragging' = FALSE
    /\ handleImageSelect(file)
    /\ UNCHANGED <<isOpen, isSubmitting, formData, imagePreview,
                   closeTimers, submission>>
    /\ gridUnchanged

\* reader.onloadend: the load ended, with the data URL or (on a read error)
\* with a null result.
readerLoadEnd(file, ok) ==
    /\ readers[file] > 0
    /\ readers' = [readers EXCEPT ![file] = @ - 1]
    /\ imagePreview' = IF ok THEN DataUrl(file) ELSE Null
    /\ UNCHANGED <<isOpen, isSubmitting, formData, selectedImage, isDragging,
                   closeTimers, submission>>
    /\ NoOutput
    /\ gridUnchanged

\* The remove button is rendered beside the preview, disabled while submitting.
removeImage ==
    /\ isOpen
    /\ imagePreview # Null
    /\ ~isSubmitting
    /\ selectedImage' = Null
    /\ imagePreview' = Null
    /\ UNCHANGED <<isOpen, isSubmitting, formData, isDragging, readers,
                   closeTimers, submission>>
    /\ NoOutput
    /\ gridUnchanged

\* A form control's onChange: setFormData({...formData, ...}).
setField(fd) ==
    /\ isOpen
    /\ ~isSubmitting
    /\ formData' = fd
    /\ UNCHANGED <<isOpen, isSubmitting, selectedImage, imagePreview, isDragging,
                   readers, closeTimers, submission>>
    /\ NoOutput
    /\ gridUnchanged

setTitle(v) == setField([formData EXCEPT !.title = v])

setDescription(v) == setField([formData EXCEPT !.description = v])

setPrice(v) == setField([formData EXCEPT !.price = v])

setCategory(v) == setField([formData EXCEPT !.category = v])

\* A "Standard Listing" button that sets the type and keeps the address.
selectStandard_KeepAddress ==
    setField([formData EXCEPT !.listingType = "standard"])

\* The "Standard Listing" button.
selectStandard ==
    setField([formData EXCEPT !.listingType = "standard",
                              !.escrowBuyerAddress = <<>>])

\* The "Escrow Listing" button.
selectEscrow == setField([formData EXCEPT !.listingType = "escrow"])

\* The buyer address input, rendered for an escrow listing only.
setEscrowBuyerAddress(v) ==
    /\ formData.listingType = "escrow"
    /\ setField([formData EXCEPT !.escrowBuyerAddress = v])

\* The escrow duration select, rendered for an escrow listing only.
setEscrowDuration(v) ==
    /\ formData.listingType = "escrow"
    /\ setField([formData EXCEPT !.escrowDuration = v])

CurrentUser == <<"C", "u", "r", "r", "e", "n", "t", "U", "s", "e", "r">>

\* A listingFields that passes the form's buyer address whatever the type.
listingFields_AlwaysAddress(fd, preview) ==
    [title |-> fd.title,
     description |-> fd.description,
     price |-> fd.price,
     category |-> fd.category,
     image |-> preview,
     seller |-> CurrentUser,
     escrowDuration |-> parseInt(fd.escrowDuration),
     listingType |-> fd.listingType,
     escrowBuyerAddress |-> fd.escrowBuyerAddress]

\* The record handleSubmit passes to addItem, built from the values its
\* closure holds.
listingFields(fd, preview) ==
    [title |-> fd.title,
     description |-> fd.description,
     price |-> fd.price,
     category |-> fd.category,
     image |-> preview,
     seller |-> CurrentUser,
     escrowDuration |-> parseInt(fd.escrowDuration),
     listingType |-> fd.listingType,
     escrowBuyerAddress |-> IF fd.listingType = "escrow"
                            THEN fd.escrowBuyerAddress
                            ELSE Undefined]

\* handleSubmit, up to its await. The submit button is disabled while
\* submitting. The closure of the call keeps the formData, selectedImage and
\* imagePreview of the render it was created in.
handleSubmit ==
    /\ isOpen
    /\ ~isSubmitting
    /\ LET errors == validateForm(formData, selectedImage, imagePreview)
       IN  IF errors # <<>>
           THEN /\ OnlyToasts(errors)
                /\ UNCHANGED <<isSubmitting, submission>>
           ELSE /\ isSubmitting' = TRUE
                /\ submission' = <<[formData |-> formData,
                                    selectedImage |-> selectedImage,
                                    imagePreview |-> imagePreview]>>
                /\ NoOutput
    /\ UNCHANGED <<isOpen, formData, selectedImage, imagePreview, isDragging,
                   readers, closeTimers>>
    /\ gridUnchanged

\* A handleSubmit whose reset and onClose sit in its finally block.
handleSubmitResume_ResetAlways(throws) ==
    /\ submission # <<>>
    /\ closeTimers = 0
    /\ LET c      == submission[1]
           fields == listingFields(c.formData, c.imagePreview)
       IN  /\ addItemCalls' = <<fields>>
           /\ IF throws
              THEN /\ toasts' = <<ToastError("Failed to create listing. Please try again.")>>
                   /\ UNCHANGED items
              ELSE /\ items' = addItem(items, fields, currentUserAddress)
                   /\ toasts' = <<ToastSuccess(IF c.formData.listingType = "escrow"
                                               THEN "Escrow listing created successfully!"
                                               ELSE "Listing created successfully!")>>
    /\ formData' = initialFormData
    /\ selectedImage' = Null
    /\ imagePreview' = Null
    /\ onCloseCalls' = 1
    /\ isOpen' = FALSE
    /\ isSubmitting' = FALSE
    /\ submission' = <<>>
    /\ deleteItemCalls' = <<>>
    /\ confirmCalls' = 0
    /\ UNCHANGED <<isDragging, readers, closeTimers>>
    /\ UNCHANGED <<currentUserAddress, isConnected, viewableGates, gridVars>>

\* handleSubmit, from the end of its 1500 ms wait: addItem returns or throws.
\* A 300 ms timer of handleClose set before the call has fired by then.
handleSubmitResume(throws) ==
    /\ submission # <<>>
    /\ closeTimers = 0
    /\ LET c      == submission[1]
           fields == listingFields(c.formData, c.imagePreview)
       IN  /\ addItemCalls' = <<fields>>
           /\ IF throws
              THEN /\ toasts' = <<ToastError("Failed to create listing. Please try again.")>>
                   /\ onCloseCalls' = 0
                   /\ UNCHANGED <<items, formData, selectedImage, imagePreview, isOpen>>
              ELSE /\ items' = addItem(items, fields, currentUserAddress)
                   /\ toasts' = <<ToastSuccess(IF c.formData.listingType = "escrow"
                                               THEN "Escrow listing created successfully!"
                                               ELSE "Listing created successfully!")>>
                   /\ formData' = initialFormData
                   /\ selectedImage' = Null
                   /\ imagePreview' = Null
                   /\ onCloseCalls' = 1
                   /\ isOpen' = FALSE
    /\ isSubmitting' = FALSE
    /\ submission' = <<>>
    /\ deleteItemCalls' = <<>>
    /\ confirmCalls' = 0
    /\ UNCHANGED <<isDragging, readers, closeTimers>>
    /\ UNCHANGED <<currentUserAddress, isConnected, viewableGates, gridVars>>

\* A handleClose without its isSubmitting guard.
handleClose_NoGuard ==
    /\ isOpen
    /\ closeTimers < MaxCloseTimers
    /\ isOpen' = FALSE
    /\ closeTimers' = closeTimers + 1
    /\ toasts' = <<>>
    /\ addItemCalls' = <<>>
    /\ onCloseCalls' = 1
    /\ deleteItemCalls' = <<>>
    /\ confirmCalls' = 0
    /\ UNCHANGED <<isSubmitting, formData, selectedImage, imagePreview,
                   isDragging, readers, submission>>
    /\ gridUnchanged

\* handleClose: the close button, the cancel button and the backdrop.
handleClose ==
    /\ isOpen
    /\ IF isSubmitting
       THEN /\ NoOutput
            /\ UNCHANGED <<isOpen, closeTimers>>
       ELSE /\ closeTimers < MaxCloseTimers
            /\ isOpen' = FALSE
            /\ closeTimers' = closeTimers + 1
            /\ toasts' = <<>>
            /\ addItemCalls' = <<>>
            /\ onCloseCalls' = 1
            /\ deleteItemCalls' = <<>>
            /\ confirmCalls' = 0
    /\ UNCHANGED <<isSubmitting, formData, selectedImage, imagePreview,
                   isDragging, readers, submission>>
    /\ gridUnchanged

\* The callback handleClose passed to setTimeout.
closeTimerFires ==
    /\ closeTimers > 0
    /\ closeTimers' = closeTimers - 1
    /\ formData' = initialFormData
    /\ selectedImage' = Null
    /\ imagePreview' = Null
    /\ isDragging' = FALSE
    /\ UNCHANGED <<isOpen, isSubmitting, readers, submission>>
    /\ NoOutput
    /\ gridUnchanged

\* ------------------------------------------------------------------------
\* What the user types and picks in the creation form
\* ------------------------------------------------------------------------

Hex64 == [i \in 1..SuiAddressLen |->
             IF i % 3 = 0 THEN "a" ELSE IF i % 3 = 1 THEN "F" ELSE "9"]

Hex63 == SubSeq(Hex64, 1, SuiAddressLen - 1)

TitleInputs == {<<>>, <<"T">>}

DescriptionInputs == {<<>>, <<"D">>}

PriceInputs == {<<>>, <<"0">>, <<"0", ".", "0", "1">>}

CategoryInputs == {"art", "gaming"}

DurationInputs == {<<"7">>, <<"1", "4">>}

AddressInputs == {<<>>, Hex64, Hex63}

\* ------------------------------------------------------------------------
\* The creation form from its construction on
\* ------------------------------------------------------------------------

InitCreator ==
    /\ isOpen = FALSE
    /\ isSubmitting = FALSE
    /\ formData = initialFormData
    /\ selectedImage = Null
    /\ imagePreview = Null
    /\ isDragging = FALSE
    /\ readers = [f \in FileIds |-> 0]
    /\ closeTimers = 0
    /\ submission = <<>>

InitGrid ==
    /\ searchQuery = <<>>
    /\ category = "all"
    /\ sortBy = "recent"
    /\ editingItem = <<>>
    /\ showActionsFor = <<>>

InitOutput ==
    /\ toasts = <<>>
    /\ addItemCalls = <<>>
    /\ onCloseCalls = 0
    /\ deleteItemCalls = <<>>
    /\ confirmCalls = 0

Init ==
    /\ InitCreator
    /\ InitGrid
    /\ InitOutput
    /\ items = <<>>
    /\ currentUserAddress = CurrentUser
    /\ isConnected = TRUE
    /\ viewableGates = {}

Next ==
    \/ Open
    \/ \E f \in FileIds : handleFileInputChange(f)
    \/ handleDragOver
    \/ handleDragLeave
    \/ \E f \in FileIds : handleDrop(f)
    \/ \E f \in FileIds, ok \in BOOLEAN : readerLoadEnd(f, ok)
    \/ removeImage
    \/ \E v \in TitleInputs : setTitle(v)
    \/ \E v \in DescriptionInputs : setDescription(v)
    \/ \E v \in PriceInputs : setPrice(v)
    \/ \E v \in CategoryInputs : setCategory(v)
    \/ selectStandard
    \/ selectEscrow
    \/ \E v \in AddressInputs : setEscrowBuyerAddress(v)
    \/ \E v \in DurationInputs : setEscrowDuration(v)
    \/ handleSubmit
    \/ \E throws \in BOOLEAN : handleSubmitResume(throws)
    \/ handleClose
    \/ closeTimerFires

Spec == Init /\ [][Next]_vars

\* ------------------------------------------------------------------------
\* One submission of a filled form
\* ------------------------------------------------------------------------

NonHex64 == [Hex64 EXCEPT ![SuiAddressLen] = "g"]

Hex65 == Hex64 \o <<"0">>

TitleCases == {<<>>, <<" ">>, <<"T">>, <<" ", "T", " ">>}

DescriptionCases == {<<>>, <<"\t", " ">>, <<"D">>}

PriceCases ==
    {<<>>,
     <<"0">>,
     <<"-", "1">>,
     <<"0", ".", "0", "1">>,
     <<"-", "0", ".", "0", "1">>,
     <<"0", ".", "0", "0">>,
     <<"-", "0">>,
     <<"1">>,
     <<".", "5">>,
     <<"1", "e", "2">>,
     <<"a", "b", "c">>,
     <<"1", "a", "b", "c">>,
     <<" ">>,
     <<"-">>}

AddressCases ==
    {<<>>,
     <<" ", " ">>,
     Hex64,
     <<"0", "x">> \o Hex64,
     Hex63,
     <<"0", "x">> \o Hex63,
     Hex65,
     NonHex64,
     <<"0", "x">> \o NonHex64,
     <<"0", "X">> \o Hex64,
     <<" ">> \o Hex64,
     Hex64 \o <<" ">>,
     <<"0", "x">>,
     <<"0", "x", "0", "x">> \o SubSeq(Hex64, 1, SuiAddressLen - 2)}

\* The form states a user can have typed; the buyer address is empty in a
\* standard listing (selectStandard clears it, and its input is not rendered).
FormCases ==
    {fd \in [title : TitleCases,
             description : DescriptionCases,
             price : PriceCases,
             category : {"art"},
             escrowDuration : {<<"7">>},
             listingType : {"standard", "escrow"},
             escrowBuyerAddress : AddressCases] :
        fd.listingType = "standard" => fd.escrowBuyerAddress = <<>>}

StagedFiles == {"a.png", "b.jpg"}

InitValidate ==
    /\ isOpen = TRUE
    /\ isSubmitting = FALSE
    /\ formData \in FormCases
    /\ selectedImage \in StagedFiles \cup {Null}
    /\ imagePreview \in {DataUrl(f) : f \in StagedFiles} \cup {Null}
    /\ isDragging = FALSE
    /\ readers = [f \in FileIds |-> 0]
    /\ closeTimers = 0
    /\ submission = <<>>
    /\ InitGrid
    /\ InitOutput
    /\ items = <<>>
    /\ currentUserAddress = CurrentUser
    /\ isConnected = TRUE
    /\ viewableGates = {}

NextValidate ==
    \/ handleSubmit
    \/ \E throws \in BOOLEAN : handleSubmitResume(throws)

SpecValidate == InitValidate /\ [][NextValidate]_vars

\* ------------------------------------------------------------------------
\* MarketplaceGrid: derived values
\* ------------------------------------------------------------------------

\* useSession().canViewEscrowListing (its code is not part of the sources):
\* the session grants a gate address or not.
canViewEscrowListing(gates, address) == address \in gates

\* A filter callback that lower-cases the listing but not the search string.
matchesFilter_QueryCase(item, query, cat, gates) ==
    LET matchesSearch ==
            \/ includes(toLowerCase(item.title), query)
            \/ includes(toLowerCase(item.seller), query)
        matchesCategory == cat = "all" \/ item.category = cat
        canView == IF item.listingType = "escrow"
                   THEN canViewEscrowListing(gates, item.escrowBuyerAddress)
                   ELSE TRUE
    IN  matchesSearch /\ matchesCategory /\ canView

\* The filter callback of filteredItems.
matchesFilter(item, query, cat, gates) ==
    LET matchesSearch ==
            \/ includes(toLowerCase(item.title), toLowerCase(query))
            \/ includes(toLowerCase(item.seller), toLowerCase(query))
        matchesCategory == cat = "all" \/ item.category = cat
        canView == IF item.listingType = "escrow"
                   THEN canViewEscrowListing(gates, item.escrowBuyerAddress)
                   ELSE TRUE
    IN  matchesSearch /\ matchesCategory /\ canView

filteredItemsOf(store, query, cat, gates) ==
    SelectSeq(store, LAMBDA item : matchesFilter(item, query, cat, gates))

filteredItems == filteredItemsOf(items, searchQuery, category, viewableGates)

RECURSIVE Pow10(_)
Pow10(n) == IF n <= 0 THEN 1 ELSE 10 * Pow10(n - 1)

Sign(n) == IF n > 0 THEN 1 ELSE IF n < 0 THEN -1 ELSE 0

\* The sign of x - y for two parsed numbers; NaN (also Infinity - Infinity)
\* counts as 0, as Array.prototype.sort reads a NaN from its comparator.
NumDiffSign(x, y) ==
    IF x.kind = "nan" \/ y.kind = "nan" THEN 0
    ELSE IF x.kind = "inf" /\ y.kind = "inf"
    THEN (IF x.neg = y.neg THEN 0 ELSE IF x.neg THEN -1 ELSE 1)
    ELSE IF x.kind = "inf" THEN (IF x.neg THEN -1 ELSE 1)
    ELSE IF y.kind = "inf" THEN (IF y.neg THEN 1 ELSE -1)
    ELSE LET e == IF x.exp < y.exp THEN x.exp ELSE y.exp
             a == (IF x.neg THEN -1 ELSE 1) * x.mant * Pow10(x.exp - e)
             b == (IF y.neg THEN -1 ELSE 1) * y.mant * Pow10(y.exp - e)
         IN  Sign(a - b)

\* The comparator of sortedItems.
compareItems(key, a, b) ==
    CASE key = "price-low"  -> NumDiffSign(parseFloat(a.price), parseFloat(b.price))
      [] key = "price-high" -> NumDiffSign(parseFloat(b.price), parseFloat(a.price))
      [] key = "popular"    -> Sign(b.likes - a.likes)
      [] key = "recent"     -> Sign(b.createdAt - a.createdAt)
      [] OTHER              -> 0

\* Array.prototype.sort is stable: x, coming after the elements of sorted in
\* the input, goes behind every element it does not sort before.
RECURSIVE InsertStable(_, _, _)
InsertStable(sorted, x, key) ==
    LET s == sorted
    IN  IF s = <<>> \/ compareItems(key, s[Len(s)], x) <= 0
        THEN Append(s, x)
        ELSE Append(InsertStable(SubSeq(s, 1, Len(s) - 1), x, key), s[Len(s)])

RECURSIVE SortStable(_, _)
SortStable(seq, key) ==
    LET s == seq
    IN  IF s = <<>> THEN <<>>
        ELSE InsertStable(SortStable(SubSeq(s, 1, Len(s) - 1), key), s[Len(s)], key)

sortedItems == SortStable(filteredItems, sortBy)

hiddenEscrowCount ==
    Len(SelectSeq(items, LAMBDA item :
           /\ item.listingType = "escrow"
           /\ ~canViewEscrowListing(viewableGates, item.escrowBuyerAddress)))

\* What is rendered in place of the listings when sortedItems is empty: the
\* second line of the empty-state message, or "none" when listings are shown.
emptyStateMessage ==
    IF Len(sortedItems) = 0
    THEN IF ~isConnected /\ hiddenEscrowCount > 0
         THEN "Connect your wallet to see escrow listings reserved for you"
         ELSE "Try adjusting your filters or search query"
    ELSE "none"

\* An ownership test that compares the two strings letter case aside.
isUserListing_CaseBlind(seller) ==
    toLowerCase(seller) = toLowerCase(currentUserAddress)

isUserListing(seller) == seller = currentUserAddress

\* The action menu button of a listing is rendered: the listing is in
\* sortedItems and is the user's own.
MenuRendered(item) ==
    /\ isUserListing(item.seller)
    /\ LET shown == sortedItems
       IN  \E i \in 1..Len(shown) : shown[i] = item

\* ------------------------------------------------------------------------
\* MarketplaceGrid: handlers
\* ------------------------------------------------------------------------

creatorUnchanged == UNCHANGED creatorVars

\* The parent passes a new searchQuery prop.
setSearchQuery(q) ==
    /\ searchQuery' = q
    /\ UNCHANGED <<category, sortBy, editingItem, showActionsFor, contextVars>>
    /\ NoOutput
    /\ creatorUnchanged

\* The parent passes a new category prop.
setCategoryFilter(c) ==
    /\ category' = c
    /\ UNCHANGED <<searchQuery, sortBy, editingItem, showActionsFor, contextVars>>
    /\ NoOutput
    /\ creatorUnchanged

\* The wallet connects, disconnects or switches account: the contexts hand
\* the grid another identity and another session.
sessionChanges(address, connected, gates) ==
    /\ <<address, connected, gates>> # <<currentUserAddress, isConnected, viewableGates>>
    /\ currentUserAddress' = address
    /\ isConnected' = connected
    /\ viewableGates' = gates
    /\ UNCHANGED <<items, gridVars>>
    /\ NoOutput
    /\ creatorUnchanged

\* The sort select.
setSortBy(key) ==
    /\ sortBy' = key
    /\ UNCHANGED <<searchQuery, category, editingItem, showActionsFor, contextVars>>
    /\ NoOutput
    /\ creatorUnchanged

\* The action menu button of a listing.
toggleActions(item) ==
    /\ MenuRendered(item)
    /\ showActionsFor' = IF showActionsFor = <<item.id>> THEN <<>> ELSE <<item.id>>
    /\ UNCHANGED <<searchQuery, category, sortBy, editingItem, contextVars>>
    /\ NoOutput
    /\ creatorUnchanged

\* The Edit entry of the open action menu.
handleEdit(item) ==
    /\ MenuRendered(item)
    /\ showActionsFor = <<item.id>>
    /\ editingItem' = <<item>>
    /\ showActionsFor' = <<>>
    /\ UNCHANGED <<searchQuery, category, sortBy, contextVars>>
    /\ NoOutput
    /\ creatorUnchanged

\* EditListingModal's onClose.
closeEditModal ==
    /\ editingItem # <<>>
    /\ editingItem' = <<>>
    /\ UNCHANGED <<searchQuery, category, sortBy, showActionsFor, contextVars>>
    /\ NoOutput
    /\ creatorUnchanged

\* A handleDelete that deletes without reading the answer of window.confirm.
handleDelete_IgnoreAnswer(item, confirmed) ==
    /\ MenuRendered(item)
    /\ showActionsFor = <<item.id>>
    /\ confirmCalls' = 1
    /\ items' = deleteItem(items, item.id)
    /\ deleteItemCalls' = <<item.id>>
    /\ toasts' = <<ToastSuccess("Listing deleted successfully!")>>
    /\ showActionsFor' = <<>>
    /\ addItemCalls' = <<>>
    /\ onCloseCalls' = 0
    /\ UNCHANGED <<searchQuery, category, sortBy, editingItem,
                   currentUserAddress, isConnected, viewableGates>>
    /\ creatorUnchanged

\* The Delete entry of the open action menu; confirmed is the answer of
\* window.confirm.
handleDelete(item, confirmed) ==
    /\ MenuRendered(item)
    /\ showActionsFor = <<item.id>>
    /\ confirmCalls' = 1
    /\ IF confirmed
       THEN /\ items' = deleteItem(items, item.id)
            /\ deleteItemCalls' = <<item.id>>
            /\ toasts' = <<ToastSuccess("Listing deleted successfully!")>>
            /\ showActionsFor' = <<>>
       ELSE /\ deleteItemCalls' = <<>>
            /\ toasts' = <<>>
            /\ UNCHANGED <<items, showActionsFor>>
    /\ addItemCalls' = <<>>
    /\ onCloseCalls' = 0
    /\ UNCHANGED <<searchQuery, category, sortBy, editingItem,
                   currentUserAddress, isConnected, viewableGates>>
    /\ creatorUnchanged

\* ------------------------------------------------------------------------
\* The grid over a store of listings
\* ------------------------------------------------------------------------

Gate1 == Hex64

Gate2 == [Hex64 EXCEPT ![1] = "b"]

Listing(id, title, seller, cat, type, gate, price, likes, createdAt) ==
    [id |-> id,
     title |-> title,
     description |-> <<"d">>,
     price |-> price,
     category |-> cat,
     image |-> "https://example.test/image.png",
     seller |-> seller,
     createdAt |-> createdAt,
     likes |-> likes,
     listingType |-> type,
     escrowDuration |-> parseInt(<<"7">>),
     escrowBuyerAddress |-> gate]

\* The listings a store is drawn from: titles and sellers in mixed case, two
\* prices equal as numbers, equal likes and equal creation times.
ListingPool ==
    {Listing(1, <<"A", "b">>, <<"a", "l">>, "art", "standard", Undefined,
             <<"1", "0">>, 5, 30),
     Listing(2, <<"b", "a">>, <<"B", "o">>, "gaming", "escrow", Gate1,
             <<"9", ".", "5">>, 5, 10),
     Listing(3, <<"c">>, <<"a", "l">>, "art", "escrow", Gate2,
             <<"1", "0", ".", "0">>, 0, 20),
     Listing(4, <<"a", "B", "c">>, <<"B", "o">>, "art", "standard", Undefined,
             <<"2", "e", "1">>, 9, 10)}

\* Stores of at most MaxStore listings with distinct ids, in any order.
StoreCases ==
    {st \in UNION {[1..n -> ListingPool] : n \in 0..MaxStore} :
        \A i, j \in DOMAIN st : i # j => st[i].id # st[j].id}

IdentityInputs == {<<"a", "l">>, <<"A", "l">>}

SearchInputs == {<<>>, <<"a">>, <<"B", "o">>}

CategoryFilters == {"all", "art", "gaming"}

SortKeys == {"recent", "price-low", "price-high", "popular"}

InitBrowser ==
    /\ InitCreator
    /\ InitGrid
    /\ InitOutput
    /\ items \in StoreCases
    /\ currentUserAddress \in IdentityInputs
    /\ isConnected \in BOOLEAN
    /\ viewableGates \in SUBSET {Gate1, Gate2}

NextBrowser ==
    \/ \E q \in SearchInputs : setSearchQuery(q)
    \/ \E c \in CategoryFilters : setCategoryFilter(c)
    \/ \E key \in SortKeys : setSortBy(key)
    \/ \E i \in 1..Len(items) : toggleActions(items[i])
    \/ \E i \in 1..Len(items) : handleEdit(items[i])
    \/ closeEditModal
    \/ \E i \in 1..Len(items), confirmed \in BOOLEAN : handleDelete(items[i], confirmed)
    \/ \E address \in IdentityInputs, connected \in BOOLEAN, gates \in SUBSET {Gate1, Gate2} :
          sessionChanges(address, connected, gates)

SpecBrowser == InitBrowser /\ [][NextBrowser]_vars

\* ------------------------------------------------------------------------
\* The grid's derived view over larger stores
\* ------------------------------------------------------------------------

\* Listings with two prices equal as numbers, a price in exponent notation, a
\* price that is no number (validateForm lets one through), equal likes and
\* equal creation times.
ViewPool ==
    {Listing(1, <<"A", "b">>, <<"a", "l">>, "art", "standard", Undefined,
             <<"1", "0">>, 5, 30),
     Listing(2, <<"b", "a">>, <<"B", "o">>, "gaming", "escrow", Gate1,
             <<"9", ".", "5">>, 5, 10),
     Listing(3, <<"a", "c">>, <<"a", "l">>, "art", "standard", Undefined,
             <<"2", "e", "1">>, 0, 20),
     Listing(4, <<"a", "B", "c">>, <<"B", "o">>, "art", "standard", Undefined,
             <<"a", "b", "c">>, 9, 10),
     Listing(5, <<"b">>, <<"a", "l">>, "gaming", "standard", Undefined,
             <<"1", "0", ".", "0">>, 5, 30)}

ViewStoreCases ==
    {st \in UNION {[1..n -> ViewPool] : n \in 0..MaxViewStore} :
        \A i, j \in DOMAIN st : i # j => st[i].id # st[j].id}

InitView ==
    /\ InitCreator
    /\ InitGrid
    /\ InitOutput
    /\ items \in ViewStoreCases
    /\ currentUserAddress = <<"a", "l">>
    /\ isConnected = FALSE
    /\ viewableGates = {}

NextView ==
    \/ \E q \in SearchInputs : setSearchQuery(q)
    \/ \E c \in CategoryFilters : setCategoryFilter(c)
    \/ \E key \in SortKeys : setSortBy(key)
    \/ \E connected \in BOOLEAN, gates \in SUBSET {Gate1} :
          /\ gates # {} => connected
          /\ sessionChanges(currentUserAddress, connected, gates)

SpecView == InitView /\ [][NextView]_vars

\* ------------------------------------------------------------------------
\* Vocabulary of the properties
\* ------------------------------------------------------------------------

\* s has a character that is not white space.
NonBlank(s) == \E i \in 1..Len(s) : s[i] \notin WhiteSpace

AllHex(s) == \A i \in 1..Len(s) : s[i] \in HexChars

\* 64 hexadecimal characters, with or without a leading "0x".
AddressShapeOK(a) ==
    \/ Len(a) = SuiAddressLen /\ AllHex(a)
    \/ /\ Len(a) = SuiAddressLen + 2
       /\ a[1] = "0"
       /\ a[2] = "x"
       /\ AllHex(SubSeq(a, 3, Len(a)))

ImageStaged == selectedImage # Null /\ imagePreview # Null

\* The last step was a handleSubmit call that validateForm rejected.
Rejected ==
    /\ ~isSubmitting
    /\ addItemCalls = <<>>
    /\ toasts # <<>>
    /\ toasts[1].kind = "error"

\* The last step was a handleSubmit call that passed validateForm.
Accepted == isSubmitting /\ submission = <<[formData |-> formData, imagePreview |-> imagePreview]>>

\* The image, title, description and price rules of the specification hold of
\* the form.
RulesBeforeAddressPass ==
    /\ ImageStaged
    /\ NonBlank(formData.title)
    /\ NonBlank(formData.description)
    /\ formData.price # <<>>
    /\ NumGtZero(parseFloat(formData.price))

\* ------------------------------------------------------------------------
\* Properties of one submission (SpecValidate)
\* ------------------------------------------------------------------------

\* C2: an escrow submission whose image, title, description and price pass
\* goes on to addItem exactly when the buyer address is non-blank and is 64
\* hexadecimal characters after an optional leading "0x"; a standard
\* submission is not checked for an address; and every escrow record that
\* reaches addItem carries an address of that shape.
C2_EscrowAddressGate ==
    /\ (RulesBeforeAddressPass /\ (Rejected \/ isSubmitting)) =>
          IF formData.listingType = "escrow"
          THEN isSubmitting <=> (/\ NonBlank(formData.escrowBuyerAddress)
                                 /\ AddressShapeOK(formData.escrowBuyerAddress))
          ELSE isSubmitting
    /\ \A i \in 1..Len(addItemCalls) :
          addItemCalls[i].listingType = "escrow" =>
             AddressShapeOK(addItemCalls[i].escrowBuyerAddress)

\* An escrow submission with "0x" and 64 hexadecimal characters is in flight.
C2_Witness ==
    /\ isSubmitting
    /\ formData.listingType = "escrow"
    /\ formData.escrowBuyerAddress = <<"0", "x">> \o Hex64

C4_NoImageRejected ==
    /\ [][(handleSubmit /\ ~ImageStaged) =>
             /\ toasts' = <<ToastError(MsgImage)>>
             /\ addItemCalls' = <<>>
             /\ onCloseCalls' = 0
             /\ ~isSubmitting'
             /\ isOpen'
             /\ UNCHANGED <<creatorVars, items>>]_vars
    /\ [][(~ImageStaged /\ ~isSubmitting) =>
             (~isSubmitting' /\ addItemCalls' = <<>>)]_vars

\* A form that is valid but for its image (a file is selected, its preview
\* not read yet) was submitted and rejected.
C4_Witness ==
    /\ Rejected
    /\ selectedImage # Null
    /\ imagePreview = Null
    /\ NonBlank(formData.title)
    /\ NonBlank(formData.description)
    /\ NumGtZero(parseFloat(formData.price))
    /\ formData.listingType = "standard"
    /\ toasts = <<ToastError(MsgImage)>>

\* The rules of validateForm, each as the condition under which it fails.
ImageRuleFails == selectedImage = Null \/ imagePreview = Null

TitleRuleFails == ~NonBlank(formData.title)

DescriptionRuleFails == ~NonBlank(formData.description)

PriceRuleFails == formData.price = <<>> \/ NumLeqZero(parseFloat(formData.price))

AddressMissing ==
    formData.listingType = "escrow" /\ ~NonBlank(formData.escrowBuyerAddress)

AddressInvalid ==
    formData.listingType = "escrow" /\ ~AddressShapeOK(formData.escrowBuyerAddress)

\* The notification of the first rule, in the order image, title,
\* description, price, buyer address, that fails; none when all hold.
FirstFailure ==
    CASE ImageRuleFails       -> <<ToastError(MsgImage)>>
      [] ~ImageRuleFails /\ TitleRuleFails -> <<ToastError(MsgTitle)>>
      [] ~ImageRuleFails /\ ~TitleRuleFails /\ DescriptionRuleFails ->
            <<ToastError(MsgDescription)>>
      [] ~ImageRuleFails /\ ~TitleRuleFails /\ ~DescriptionRuleFails
            /\ PriceRuleFails -> <<ToastError(MsgPrice)>>
      [] ~ImageRuleFails /\ ~TitleRuleFails /\ ~DescriptionRuleFails
            /\ ~PriceRuleFails /\ AddressMissing -> <<ToastError(MsgAddressMissing)>>
      [] ~ImageRuleFails /\ ~TitleRuleFails /\ ~DescriptionRuleFails
            /\ ~PriceRuleFails /\ ~AddressMissing /\ AddressInvalid ->
            <<ToastError(MsgAddressInvalid)>>
      [] OTHER -> <<>>

\* C10: validateForm reports exactly the first failing rule, in the order
\* image, title, description, price, buyer address, with one notification;
\* a rejected handleSubmit calls neither addItem nor onClose, does not set
\* isSubmitting, changes nothing of the form and leaves no submission pending.
C10_FirstFailureOnly ==
    /\ [](Rejected =>
             /\ Len(toasts) = 1
             /\ toasts = FirstFailure
             /\ submission = <<>>
             /\ onCloseCalls = 0)
    /\ [](isSubmitting => FirstFailure = <<>>)
    /\ [][(handleSubmit /\ FirstFailure # <<>>) =>
             /\ toasts' = FirstFailure
             /\ addItemCalls' = <<>>
             /\ ~isSubmitting'
             /\ UNCHANGED <<creatorVars, items>>]_vars

\* A submission that breaks the description, the price and the address rule
\* at once was rejected for its description.
C10_Witness ==
    /\ Rejected
    /\ ~ImageRuleFails
    /\ ~TitleRuleFails
    /\ DescriptionRuleFails
    /\ PriceRuleFails
    /\ AddressInvalid
    /\ toasts = <<ToastError(MsgDescription)>>

\* ------------------------------------------------------------------------
\* Properties of the creation form from its construction on (Spec)
\* ------------------------------------------------------------------------

MsgFailed == "Failed to create listing. Please try again."

\* C6: while a submission is in flight exactly one handleSubmit call is
\* waiting and handleSubmit cannot start again; every step either keeps that
\* call waiting with the form open, onClose and addItem not called and no
\* reset scheduled, or ends it with exactly one addItem call; and a
\* handleClose call changes nothing.
C6_InFlightGuard ==
    /\ [](isSubmitting <=> Len(submission) = 1)
    /\ [](isSubmitting => ~ENABLED handleSubmit)
    /\ [][isSubmitting =>
             \/ /\ isSubmitting'
                /\ submission' = submission
                /\ isOpen'
                /\ onCloseCalls' = 0
                /\ addItemCalls' = <<>>
                /\ closeTimers' <= closeTimers
             \/ /\ ~isSubmitting'
                /\ submission' = <<>>
                /\ Len(addItemCalls') = 1]_vars
    /\ [][(isSubmitting /\ handleClose) =>
             (UNCHANGED creatorVars /\ onCloseCalls' = 0)]_vars

\* A submission is in flight with the form open and a staged image.
C6_Witness ==
    /\ isSubmitting
    /\ isOpen
    /\ ENABLED handleClose
    /\ ImageStaged
    /\ formData.listingType = "escrow"

\* C7: every record passed to addItem has escrowBuyerAddress undefined when
\* its listingType is not "escrow", and a buyer address that passed the
\* address rule when it is.
C7_AddressOnlyForEscrow ==
    \A i \in 1..Len(addItemCalls) :
       IF addItemCalls[i].listingType = "escrow"
       THEN /\ addItemCalls[i].escrowBuyerAddress # Undefined
            /\ NonBlank(addItemCalls[i].escrowBuyerAddress)
            /\ AddressShapeOK(addItemCalls[i].escrowBuyerAddress)
       ELSE addItemCalls[i].escrowBuyerAddress = Undefined

\* addItem was called with a standard record.
C7_Witness ==
    /\ Len(addItemCalls) = 1
    /\ addItemCalls[1].listingType = "standard"
    /\ addItemCalls[1].escrowBuyerAddress = Undefined

\* C8: when addItem throws, handleSubmit reports the failure with one error
\* notification, does not call onClose, leaves the form fields, the staged
\* image and the store as they are, and ends with the form open and
\* isSubmitting false.
C8_FailureKeepsForm ==
    [][handleSubmitResume(TRUE) =>
          /\ toasts' = <<ToastError(MsgFailed)>>
          /\ onCloseCalls' = 0
          /\ formData' = formData
          /\ selectedImage' = selectedImage
          /\ imagePreview' = imagePreview
          /\ items' = items
          /\ isOpen'
          /\ ~isSubmitting'
          /\ submission' = <<>>]_vars

\* addItem threw, and the populated form can be submitted again.
C8_Witness ==
    /\ toasts = <<ToastError(MsgFailed)>>
    /\ Len(addItemCalls) = 1
    /\ formData # initialFormData
    /\ ImageStaged
    /\ ENABLED handleSubmit

\* The last step was a handleSubmit call that ended with addItem returning.
AfterSuccess == onCloseCalls = 1 /\ Len(addItemCalls) = 1

\* C9 (as the specification states it): after a successful submission the
\* form is at its initial values, closed, not submitting, with no staged
\* image, and the preview stays null as long as no new file is staged.
C9_ClearedAfterSuccess ==
    /\ [](AfterSuccess =>
             /\ formData = initialFormData
             /\ selectedImage = Null
             /\ imagePreview = Null
             /\ ~isOpen
             /\ ~isSubmitting)
    /\ [][(AfterSuccess /\ selectedImage' = Null) => imagePreview' = Null]_vars

\* ------------------------------------------------------------------------
\* Properties of the grid (SpecBrowser)
\* ------------------------------------------------------------------------

\* a and b are the same character, or the two cases of one letter.
SameLetter(a, b) ==
    \/ a = b
    \/ \E i \in 1..26 : {a, b} = {UpperChars[i], LowerChars[i]}

\* q occurs in s at some offset, letter case aside.
ContainsCI(s, q) ==
    \E k \in 0..(Len(s) - Len(q)) :
       \A j \in 1..Len(q) : SameLetter(s[k + j], q[j])

MatchesSearchAndCategory(item) ==
    /\ ContainsCI(item.title, searchQuery) \/ ContainsCI(item.seller, searchQuery)
    /\ category = "all" \/ item.category = category

ShouldShow(item) ==
    /\ MatchesSearchAndCategory(item)
    /\ \/ item.listingType # "escrow"
       \/ canViewEscrowListing(viewableGates, item.escrowBuyerAddress)

\* C1: filteredItems holds exactly the listings of the store whose title or
\* seller contains the search string (case aside), whose category is the
\* selected one (or "all" is selected) and which are not escrow listings or
\* are granted by canViewEscrowListing; each once, in the order of the store;
\* a standard listing that matches is never left out.
C1_FilterExact ==
    LET f == filteredItems
    IN  /\ \A i \in 1..Len(items) :
              ShouldShow(items[i]) <=> \E j \in 1..Len(f) : f[j] = items[i]
        /\ \A j \in 1..Len(f) : \E i \in 1..Len(items) : items[i] = f[j]
        /\ \A j1, j2 \in 1..Len(f) : \A i1, i2 \in 1..Len(items) :
              (j1 < j2 /\ items[i1] = f[j1] /\ items[i2] = f[j2]) => i1 < i2
        /\ \A i \in 1..Len(items) :
              (items[i].listingType = "standard" /\ MatchesSearchAndCategory(items[i]))
                 => \E j \in 1..Len(f) : f[j] = items[i]

\* Of two listings that match a search in the other letter case, the escrow
\* one is hidden by the session and the standard one is shown.
C1_Witness ==
    /\ searchQuery = <<"B", "o">>
    /\ category = "all"
    /\ Len(items) = 2
    /\ items[1].listingType = "escrow"
    /\ items[1].seller = <<"B", "o">>
    /\ items[2].title = <<"a", "B", "c">>
    /\ ~includes(items[2].title, searchQuery)
    /\ ~includes(items[2].seller, <<"b", "o">>)
    /\ filteredItems = <<items[2]>>

\* new holds the listings of old but the one of that id, and nothing else.
RemovedExactly(old, new, id) ==
    /\ \A j \in 1..Len(new) :
          new[j].id # id /\ \E i \in 1..Len(old) : old[i] = new[j]
    /\ \A i \in 1..Len(old) :
          old[i].id # id => \E j \in 1..Len(new) : new[j] = old[i]
    /\ Len(new) = Len(old) - 1

\* C5: a handleDelete call asks for confirmation; accepted, it calls
\* deleteItem once, with the id of its listing, and the store loses exactly
\* that listing; declined, it does not call deleteItem and leaves the store
\* and the open action menu as they are; no other step of the grid calls
\* deleteItem or changes the store.
C5_DeleteAfterConfirm ==
    /\ [][\A i \in 1..Len(items) :
             /\ handleDelete(items[i], TRUE) =>
                   /\ confirmCalls' = 1
                   /\ deleteItemCalls' = <<items[i].id>>
                   /\ RemovedExactly(items, items', items[i].id)
             /\ handleDelete(items[i], FALSE) =>
                   /\ confirmCalls' = 1
                   /\ deleteItemCalls' = <<>>
                   /\ items' = items
                   /\ showActionsFor' = showActionsFor]_vars
    /\ [][confirmCalls' = 0 => (deleteItemCalls' = <<>> /\ items' = items)]_vars

\* A listing of a store of two was deleted after confirmation.
C5_Witness ==
    /\ confirmCalls = 1
    /\ Len(deleteItemCalls) = 1
    /\ Len(items) = 1
    /\ items[1].id # deleteItemCalls[1]
    /\ showActionsFor = <<>>

\* The listing of the store with that id is the current user's own.
OwnedId(id) ==
    \E i \in 1..Len(items) :
       items[i].id = id /\ items[i].seller = currentUserAddress

\* C11: the action menu is offered, editingItem is set and deleteItem is
\* called only for a listing whose seller is, character for character, the
\* current identity: no listing of another seller has its menu entries
\* rendered, and every step that opens a menu, sets editingItem or calls
\* deleteItem does so for a listing of the store owned by the current user.
C11_OwnerOnly ==
    /\ [](\A i \in 1..Len(items) :
            MenuRendered(items[i]) => items[i].seller = currentUserAddress)
    /\ [][(showActionsFor' # <<>> /\ showActionsFor' # showActionsFor)
             => OwnedId(showActionsFor'[1])]_vars
    /\ [][(editingItem' # <<>> /\ editingItem' # editingItem)
             => OwnedId(editingItem'[1].id)]_vars
    /\ [][deleteItemCalls' # <<>> => OwnedId(deleteItemCalls'[1])]_vars
    /\ [][confirmCalls' > 0 => (showActionsFor # <<>> /\ OwnedId(showActionsFor[1]))]_vars

\* The user edits a listing of their own while the store holds a listing of
\* another seller, and the identity "Al" is offered no menu on a listing of "al".
C11_Witness ==
    /\ editingItem # <<>>
    /\ editingItem[1].seller = <<"a", "l">>
    /\ currentUserAddress = <<"A", "l">>
    /\ \E i \in 1..Len(items) :
          /\ items[i].seller = <<"a", "l">>
          /\ ~MenuRendered(items[i])
          /\ showActionsFor = <<items[i].id>>

\* ------------------------------------------------------------------------
\* Properties of the grid's derived view (SpecView)
\* ------------------------------------------------------------------------

Reverse(seq) == [i \in 1..Len(seq) |-> seq[Len(seq) + 1 - i]]

\* Two parsed prices are the same number. NaN equals nothing.
SamePrice(x, y) ==
    x.kind # "nan" /\ y.kind # "nan" /\ NumDiffSign(x, y) = 0

\* The parsed price x is a number below the number y.
PriceBelow(x, y) ==
    x.kind # "nan" /\ y.kind # "nan" /\ NumDiffSign(x, y) < 0

NoEqualParsedPrice(f) ==
    \A i, j \in 1..Len(f) :
       i < j => ~SamePrice(parseFloat(f[i].price), parseFloat(f[j].price))

Before(key, a, b) ==
    CASE key = "recent"     -> a.createdAt > b.createdAt
      [] key = "price-low"  -> PriceBelow(parseFloat(a.price), parseFloat(b.price))
      [] key = "price-high" -> PriceBelow(parseFloat(b.price), parseFloat(a.price))
      [] key = "popular"    -> a.likes > b.likes
      [] OTHER              -> FALSE

PositionIn(seq, x) == CHOOSE i \in 1..Len(seq) : seq[i] = x

HiddenBySessionOnly ==
    \E i \in 1..Len(items) :
       /\ items[i].listingType = "escrow"
       /\ ~canViewEscrowListing(viewableGates, items[i].escrowBuyerAddress)
       /\ MatchesSearchAndCategory(items[i])

\* C15: when sortedItems is empty a message is rendered; it is the
\* connect-wallet message exactly when the session is not connected and an
\* escrow listing that passes search and category is hidden by the session,
\* and the adjust-filters message in every other empty case.
C15_EmptyStateVariant ==
    Len(sortedItems) = 0 =>
       /\ emptyStateMessage # "none"
       /\ emptyStateMessage = "Connect your wallet to see escrow listings reserved for you"
             <=> (~isConnected /\ HiddenBySessionOnly)
       /\ emptyStateMessage = "Try adjusting your filters or search query"
             <=> ~(~isConnected /\ HiddenBySessionOnly)

\* ------------------------------------------------------------------------
\* Properties of the form state and of image staging (Spec)
\* ------------------------------------------------------------------------

\* C13: a click on "Standard Listing" sets listingType to "standard", empties
\* escrowBuyerAddress and leaves the other fields and the rest of the form
\* as they are; and in every state a standard form has an empty
\* escrowBuyerAddress.
C13_StandardClearsAddress ==
    /\ [](formData.listingType = "standard" => formData.escrowBuyerAddress = <<>>)
    /\ [][selectStandard =>
             /\ formData'.listingType = "standard"
             /\ formData'.escrowBuyerAddress = <<>>
             /\ \A f \in {"title", "description", "price", "category", "escrowDuration"} :
                   formData'[f] = formData[f]
             /\ UNCHANGED <<isOpen, isSubmitting, selectedImage, imagePreview,
                            isDragging, readers, closeTimers, submission>>]_vars

\* A standard form that was an escrow form before (the duration select is
\* offered to escrow forms only) and kept its title.
C13_Witness ==
    /\ isOpen
    /\ formData.listingType = "standard"
    /\ formData.escrowBuyerAddress = <<>>
    /\ formData.escrowDuration = <<"1", "4">>
    /\ formData.title = <<"T">>

\* The media type of the file begins with the six characters "image/".
HasImageType(f) ==
    /\ Len(FileType(f)) >= 6
    /\ SubSeq(FileType(f), 1, 6) = <<"i", "m", "a", "g", "e", "/">>

Stageable(f) == HasImageType(f) /\ FileSize(f) <= 10 * 1024 * 1024

\* C16: a file handed to handleImageSelect (from the file input or a drop)
\* becomes the staged file, with a read of it started, exactly when its type
\* begins with "image/" and its size is at most 10 MiB; any other file is
\* answered with one error notification and leaves the staged file, the
\* preview and the reads in flight as they were.
C16_StagedIffImageWithinLimit ==
    [][\A f \in FileIds :
          (handleFileInputChange(f) \/ handleDrop(f)) =>
             IF Stageable(f)
             THEN /\ selectedImage' = f
                  /\ readers' = [readers EXCEPT ![f] = @ + 1]
                  /\ \A i \in 1..Len(toasts') : toasts'[i].kind # "error"
             ELSE /\ Len(toasts') = 1
                  /\ toasts'[1].kind = "error"
                  /\ selectedImage' = selectedImage
                  /\ imagePreview' = imagePreview
                  /\ readers' = readers]_vars

\* The file of exactly 10 MiB is staged and previewed, and the file one byte
\* larger has just been turned away.
C16_Witness ==
    /\ selectedImage = "b.jpg"
    /\ imagePreview = DataUrl("b.jpg")
    /\ FileSize("b.jpg") = 10 * 1024 * 1024
    /\ toasts = <<ToastError("File size must be less than 10MB")>>

\* C17: whenever a preview is shown, a file is staged and the preview is the
\* data URL read from that file.
C17_PreviewOfStagedFile ==
    imagePreview # Null =>
       /\ selectedImage # Null
       /\ imagePreview = DataUrl(selectedImage)

\* C18: the closure of a handleSubmit call holds the form values and the
\* staged file that validateForm accepted; the record its continuation hands
\* to addItem carries those title, description, price, category, listing type
\* and buyer address (of an escrow form), whatever happened to the form
\* during the wait, and its image is the data URL of that staged file.
C18_SubmitsWhatWasValidated ==
    /\ [][(submission = <<>> /\ submission' # <<>>) =>
             /\ submission'[1].formData = formData
             /\ submission'[1].selectedImage = selectedImage
             /\ validateForm(formData, selectedImage, imagePreview) = <<>>]_vars
    /\ [][addItemCalls' # <<>> =>
             LET c == submission[1]
                 r == addItemCalls'[1]
             IN  /\ Len(addItemCalls') = 1
                 /\ r.title = c.formData.title
                 /\ r.description = c.formData.description
                 /\ r.price = c.formData.price
                 /\ r.category = c.formData.category
                 /\ r.listingType = c.formData.listingType
                 /\ c.formData.listingType = "escrow"
                       => r.escrowBuyerAddress = c.formData.escrowBuyerAddress
                 /\ r.image = DataUrl(c.selectedImage)]_vars

====
